---- MODULE Spec2Model ----
(***************************************************************************)
(* A model of the bitmap library (bitmap.h, bitmap.c): the image store     *)
(* (new_image, destroy_image, copy_image), the bitmap transport            *)
(* (save_bitmap, open_bitmap) with its per-depth pixel codec, and the      *)
(* steganographic channel (steganography_write, steganography_read).       *)
(*                                                                         *)
(* Conventions.  Arrays are functions on 0..n-1, as in the C code.  A      *)
(* uint32_t that takes part in mask arithmetic is a "word": the set of     *)
(* the positions (0..31) of its set bits, so that &, >>, << and + are      *)
(* computed bit by bit on all 32 bits.  A pixel is a function on the       *)
(* channel indices 0..3 (B, G, R, A), which is how the code itself reads   *)
(* a packed Pixel through a uint8_t pointer.                               *)
(***************************************************************************)
EXTENDS Integers, Sequences, FiniteSets, TLC

VARIABLES
    op,      \* name of the last operation that ran ("init" before any)
    args,    \* the arguments that operation was called with
    ret,     \* what it returned (an int, a string, or a record)
    img,     \* the Image objects of the caller, by name
    heap,    \* the allocator's blocks: block id -> [kind, st, frees, data]
    file,    \* the bitmap file on disk
    fault,   \* memory errors hit so far (undefined behaviour in the C code)
    steps    \* number of operations run

vars == <<op, args, ret, img, heap, file, fault, steps>>

-----------------------------------------------------------------------------
(* Program constants *)

B == 0
G == 1
R == 2
A == 3
HI_NIBBLE == 0
LO_NIBBLE == 1
STEG_LEN == 32
CHAR_BIT == 8
mask1 == (0 :> 128) @@ (1 :> 64) @@ (2 :> 32) @@ (3 :> 16)
         @@ (4 :> 8) @@ (5 :> 4) @@ (6 :> 2) @@ (7 :> 1)
mask4 == (0 :> 240) @@ (1 :> 15)
SupportedBpp == {1, 4, 8, 16, 24, 32}

MIN(x, y) == IF x < y THEN x ELSE y

\* y, once x has its value: a loop that threads its state through Step
\* computes it iteration by iteration, in the order the code does
Step(x, y) == IF x = x THEN y ELSE y

-----------------------------------------------------------------------------
(* Words: 32-bit unsigned values as sets of bit positions *)

RECURSIVE Pow2(_)
Pow2(n) == IF n = 0 THEN 1 ELSE 2 * Pow2(n - 1)

\* the word of a non-negative number below 2^31
Word(n) == {b \in 0..30 : (n \div Pow2(b)) % 2 = 1}

RECURSIVE LowBits(_, _)
\* the number held in bits 0..n-1 of word w (n <= 16)
LowBits(w, n) ==
    IF n = 0 THEN 0
    ELSE LowBits(w, n - 1) + (IF (n - 1) \in w THEN Pow2(n - 1) ELSE 0)

ShiftR(w, k) == {b - k : b \in {x \in w : x >= k}}
ShiftL(w, k) == {b + k : b \in {x \in w : x + k <= 31}}

RECURSIVE WAdd(_, _)
\* w + v modulo 2^32: sum without carries, plus the carries shifted up
WAdd(w, v) ==
    IF v = {} THEN w
    ELSE WAdd((w \cup v) \ (w \cap v), ShiftL(w \cap v, 1))

\* byte k (0 = least significant) of word w, as stored on a little-endian host
ByteOf(w, k) == LowBits(ShiftR(w, 8 * k), 8)

RECURSIVE tr_zeros_loop(_, _)
tr_zeros_loop(val, res) ==
    IF 0 \in val THEN res ELSE tr_zeros_loop(ShiftR(val, 1), res + 1)

tr_zeros(val) == IF val = {} THEN 0 ELSE tr_zeros_loop(val, 0)

READ_MASK(val, mask) == ShiftR(val \cap mask, tr_zeros(mask))

\* a value stored into a uint8_t
U8(w) == LowBits(w, 8)

-----------------------------------------------------------------------------
(* Bmp_header, Pixel, Color *)

\* The fields of Bmp_header in declaration order with the offset one past
\* each (the struct is packed).  The fields after alpha_mask (cs_type ..
\* reserved, offsets 56..124) are never read or set to a non-zero value by
\* the library and are left out of the record.
FieldEnd ==
    [header_size |-> 4, width |-> 8, height |-> 12, color_planes |-> 14,
     bit_per_pixel |-> 16, compression_type |-> 20, image_size |-> 24,
     h_resolution |-> 28, v_resolution |-> 32, color_no |-> 36,
     important_color_no |-> 40, red_mask |-> 44, green_mask |-> 48,
     blue_mask |-> 52, alpha_mask |-> 56]
MaskFields == {"red_mask", "green_mask", "blue_mask", "alpha_mask"}

\* memset(&h, 0, sizeof h): the masks are words, the other fields numbers
ZeroHeader ==
    [f \in DOMAIN FieldEnd |-> IF f \in MaskFields THEN {} ELSE 0]

\* the first n bytes of header h, the rest zero (n on a field boundary)
HeaderPrefix(h, n) ==
    [f \in DOMAIN FieldEnd |-> IF FieldEnd[f] <= n THEN h[f] ELSE ZeroHeader[f]]

Pixel(b, g, r, i) ==
    [c \in 0..3 |-> CASE c = B -> b [] c = G -> g [] c = R -> r [] OTHER -> i]
ZeroPixel == Pixel(0, 0, 0, 0)

\* the empty Image: memset(&image, 0, sizeof (Image)); 0 is the NULL pointer
EmptyImage == [bmp_header |-> ZeroHeader, pixel_data |-> 0, palette |-> 0]

-----------------------------------------------------------------------------
(* Row framing, as each of the three functions computes it *)

\* faulty variant: the row length is rounded down instead of up
pad_new_floor(bpp, width) == (4 - (((bpp * width) \div 8) % 4)) % 4

pad_new(bpp, width) == (4 - (((bpp * width + 7) \div 8) % 4)) % 4
image_size_new(bpp, width, height) ==
    (((bpp * width + 7) \div 8) + pad_new(bpp, width)) * height
pad_open(h) == (4 - (((h.width * h.bit_per_pixel + 7) \div 8) % 4)) % 4
pad_save(h) == (4 - (((h.width * h.bit_per_pixel + 7) \div 8) % 4)) % 4

-----------------------------------------------------------------------------
(* The scratch buffer and its cursor *)

\* calloc(1, size) with the cursor buf at its start; bad collects the
\* offsets outside the buffer that were read or written through buf
NewBuf(size) == [mem |-> [k \in 0..(size - 1) |-> 0], cur |-> 0, bad |-> {}]

\* *buf++ = v
Put(bs, v) ==
    IF bs.cur \in DOMAIN bs.mem
    THEN [bs EXCEPT !.mem[bs.cur] = v, !.cur = @ + 1]
    ELSE [bs EXCEPT !.cur = @ + 1, !.bad = @ \cup {bs.cur}]

\* buf += n
Skip(bs, n) == [bs EXCEPT !.cur = @ + n]

\* *(uintN_t*) buf = w; buf += n   (little-endian store of the low n bytes)
RECURSIVE PutWord(_, _, _, _)
PutWord(bs, w, k, n) ==
    IF k < n THEN PutWord(Put(bs, ByteOf(w, k)), w, k + 1, n) ELSE bs

-----------------------------------------------------------------------------
(* save_bitmap: pixel data into bitmap format, one operator per loop.      *)
(* row is image.pixel_data[i]; past is the pixel the code reads when it    *)
(* indexes one element past the end of the row.                            *)

\* case 1, inner for: the bits of one byte, most significant first
RECURSIVE save_bits_1(_, _, _, _, _)
save_bits_1(h, row, bit, j, tmp) ==
    IF bit >= 0 /\ j < h.width
    THEN save_bits_1(h, row, bit - 1, j + 1,
             U8(Word(tmp) \cup ShiftL(Word(IF row[j][A] = 0 THEN 0 ELSE 1), bit)))
    ELSE <<tmp, j>>

RECURSIVE save_row_1(_, _, _, _)
save_row_1(h, row, j, bs) ==
    IF j < h.width
    THEN LET byte == save_bits_1(h, row, 7, j, 0)
             b1 == Put(bs, byte[1])
         IN  Step(b1, save_row_1(h, row, byte[2], b1))
    ELSE bs

\* case 4: two pixels per byte; the low nibble is guarded by h->height
RECURSIVE save_row_4(_, _, _, _, _)
save_row_4(h, row, past, j, bs) ==
    IF j < h.width
    THEN LET hi  == ShiftL(Word(row[j][A]), 4)
             nxt == IF j + 1 < h.width THEN row[j + 1] ELSE past
             tmp == IF j + 1 < h.height
                    THEN hi \cup (Word(nxt[A]) \cap Word(mask4[LO_NIBBLE]))
                    ELSE hi
             b1 == Put(bs, U8(tmp))
         IN  Step(b1, save_row_4(h, row, past, j + 2, b1))
    ELSE bs

RECURSIVE save_row_8(_, _, _, _)
save_row_8(h, row, j, bs) ==
    IF j < h.width
    THEN LET b1 == Put(bs, row[j][A])
         IN  Step(b1, save_row_8(h, row, j + 1, b1))
    ELSE bs

\* case 16: the sum is an int, stored through a uint16_t pointer
RECURSIVE save_row_16(_, _, _, _)
save_row_16(h, row, j, bs) ==
    IF j < h.width
    THEN LET px == WAdd(WAdd(ShiftL(Word(row[j][B]), tr_zeros(h.blue_mask)),
                             ShiftL(Word(row[j][G]), tr_zeros(h.green_mask))),
                        ShiftL(Word(row[j][R]), tr_zeros(h.red_mask)))
             b1 == PutWord(bs, px, 0, 2)
         IN  Step(b1, save_row_16(h, row, j + 1, b1))
    ELSE bs

RECURSIVE save_row_24(_, _, _, _)
save_row_24(h, row, j, bs) ==
    IF j < h.width
    THEN LET b1 == Put(Put(Put(bs, row[j][B]), row[j][G]), row[j][R])
         IN  Step(b1, save_row_24(h, row, j + 1, b1))
    ELSE bs

\* case 32: a shift of a component into bit 31 overflows the int it is
\* computed in; every build keeps the low 32 bits, which is what ShiftL does
RECURSIVE save_row_32(_, _, _, _)
save_row_32(h, row, j, bs) ==
    IF j < h.width
    THEN LET px == WAdd(WAdd(WAdd(ShiftL(Word(row[j][B]), tr_zeros(h.blue_mask)),
                                  ShiftL(Word(row[j][G]), tr_zeros(h.green_mask))),
                             ShiftL(Word(row[j][R]), tr_zeros(h.red_mask))),
                        ShiftL(Word(row[j][A]), tr_zeros(h.alpha_mask)))
             b1 == PutWord(bs, px, 0, 4)
         IN  Step(b1, save_row_32(h, row, j + 1, b1))
    ELSE bs

save_row(h, row, past, bs) ==
    CASE h.bit_per_pixel = 1  -> save_row_1(h, row, 0, bs)
      [] h.bit_per_pixel = 4  -> save_row_4(h, row, past, 0, bs)
      [] h.bit_per_pixel = 8  -> save_row_8(h, row, 0, bs)
      [] h.bit_per_pixel = 16 -> save_row_16(h, row, 0, bs)
      [] h.bit_per_pixel = 24 -> save_row_24(h, row, 0, bs)
      [] h.bit_per_pixel = 32 -> save_row_32(h, row, 0, bs)

\* the for (i ...) loop every case of the switch has: a row, then buf += pad
RECURSIVE save_rows(_, _, _, _, _)
save_rows(h, grid, past, i, bs) ==
    IF i < h.height
    THEN LET b1 == Skip(save_row(h, grid[i], past, bs), pad_save(h))
         IN  Step(b1, save_rows(h, grid, past, i + 1, b1))
    ELSE bs

\* the switch: no case matches an unsupported depth
save_pack(h, grid, past) ==
    IF h.bit_per_pixel \in SupportedBpp
    THEN save_rows(h, grid, past, 0, NewBuf(h.image_size))
    ELSE NewBuf(h.image_size)

-----------------------------------------------------------------------------
(* open_bitmap: bitmap data into pixels, one operator per loop.            *)
(* mem is the scratch buffer as read from the file; ds is the decoder's    *)
(* state [grid, cur, bad]: the pixel matrix, the cursor buf, the offsets   *)
(* read outside the buffer; wild is the byte such a read yields.           *)

\* *(buf + k)
Rd(mem, ds, k, wild) ==
    IF ds.cur + k \in DOMAIN mem THEN mem[ds.cur + k] ELSE wild

\* note the offsets cur .. cur+n-1 as read
Touch(mem, ds, n) ==
    [ds EXCEPT !.bad = @ \cup {o \in ds.cur..(ds.cur + n - 1) : o \notin DOMAIN mem}]

\* *(uintN_t*) buf, a little-endian load of n bytes
RECURSIVE LoadWord(_, _, _, _, _)
LoadWord(mem, ds, k, n, wild) ==
    IF k < n
    THEN ShiftL(Word(Rd(mem, ds, k, wild)), 8 * k) \cup LoadWord(mem, ds, k + 1, n, wild)
    ELSE {}

\* case 1: buf advances only when bit reaches 8
RECURSIVE open_row_1(_, _, _, _, _, _, _)
open_row_1(h, mem, wild, i, j, bit, ds) ==
    IF j < h.width
    THEN LET v  == U8(READ_MASK(Word(Rd(mem, ds, 0, wild)), Word(mask1[bit])))
             d1 == [Touch(mem, ds, 1) EXCEPT !.grid[i][j][A] = v]
             d2 == Skip(d1, 1)
         IN  IF bit + 1 = 8
             THEN Step(d2, open_row_1(h, mem, wild, i, j + 1, 0, d2))
             ELSE Step(d1, open_row_1(h, mem, wild, i, j + 1, bit + 1, d1))
    ELSE ds

RECURSIVE open_row_4(_, _, _, _, _, _)
open_row_4(h, mem, wild, i, j, ds) ==
    IF j < h.width
    THEN LET byte == Word(Rd(mem, ds, 0, wild))
             d1 == [Touch(mem, ds, 1) EXCEPT
                       !.grid[i][j][A] = U8(READ_MASK(byte, Word(mask4[HI_NIBBLE])))]
             d2 == IF j + 1 < h.width
                   THEN [d1 EXCEPT !.grid[i][j + 1][A] =
                                       U8(READ_MASK(byte, Word(mask4[LO_NIBBLE])))]
                   ELSE d1
             d3 == Skip(d2, 1)
         IN  Step(d3, open_row_4(h, mem, wild, i, j + 2, d3))
    ELSE ds

RECURSIVE open_row_8(_, _, _, _, _, _)
open_row_8(h, mem, wild, i, j, ds) ==
    IF j < h.width
    THEN LET d1 == Skip([Touch(mem, ds, 1) EXCEPT
                            !.grid[i][j][A] = Rd(mem, ds, 0, wild)], 1)
         IN  Step(d1, open_row_8(h, mem, wild, i, j + 1, d1))
    ELSE ds

RECURSIVE open_row_16(_, _, _, _, _, _)
open_row_16(h, mem, wild, i, j, ds) ==
    IF j < h.width
    THEN LET px == LoadWord(mem, ds, 0, 2, wild)
             d1 == Skip([Touch(mem, ds, 2) EXCEPT
                            !.grid[i][j][B] = U8(READ_MASK(px, h.blue_mask)),
                            !.grid[i][j][G] = U8(READ_MASK(px, h.green_mask)),
                            !.grid[i][j][R] = U8(READ_MASK(px, h.red_mask))], 2)
         IN  Step(d1, open_row_16(h, mem, wild, i, j + 1, d1))
    ELSE ds

RECURSIVE open_row_24(_, _, _, _, _, _)
open_row_24(h, mem, wild, i, j, ds) ==
    IF j < h.width
    THEN LET d1 == Skip([Touch(mem, ds, 3) EXCEPT
                            !.grid[i][j][B] = Rd(mem, ds, 0, wild),
                            !.grid[i][j][G] = Rd(mem, ds, 1, wild),
                            !.grid[i][j][R] = Rd(mem, ds, 2, wild)], 3)
         IN  Step(d1, open_row_24(h, mem, wild, i, j + 1, d1))
    ELSE ds

RECURSIVE open_row_32(_, _, _, _, _, _)
open_row_32(h, mem, wild, i, j, ds) ==
    IF j < h.width
    THEN LET px == LoadWord(mem, ds, 0, 4, wild)
             d1 == Skip([Touch(mem, ds, 4) EXCEPT
                            !.grid[i][j][B] = U8(READ_MASK(px, h.blue_mask)),
                            !.grid[i][j][G] = U8(READ_MASK(px, h.green_mask)),
                            !.grid[i][j][R] = U8(READ_MASK(px, h.red_mask)),
                            !.grid[i][j][A] = U8(READ_MASK(px, h.alpha_mask))], 4)
         IN  Step(d1, open_row_32(h, mem, wild, i, j + 1, d1))
    ELSE ds

open_row(h, mem, wild, i, ds) ==
    CASE h.bit_per_pixel = 1  -> open_row_1(h, mem, wild, i, 0, 0, ds)
      [] h.bit_per_pixel = 4  -> open_row_4(h, mem, wild, i, 0, ds)
      [] h.bit_per_pixel = 8  -> open_row_8(h, mem, wild, i, 0, ds)
      [] h.bit_per_pixel = 16 -> open_row_16(h, mem, wild, i, 0, ds)
      [] h.bit_per_pixel = 24 -> open_row_24(h, mem, wild, i, 0, ds)
      [] h.bit_per_pixel = 32 -> open_row_32(h, mem, wild, i, 0, ds)

\* the for (i ...) loop every case of the switch has: a row, then buf += pad
RECURSIVE open_rows(_, _, _, _, _)
open_rows(h, mem, wild, i, ds) ==
    IF i < h.height
    THEN LET d1 == Skip(open_row(h, mem, wild, i, ds), pad_open(h))
         IN  Step(d1, open_rows(h, mem, wild, i + 1, d1))
    ELSE ds

\* the switch, run on rows that malloc left uninitialised: every channel
\* starts as whatever the allocator returned (the pixel raw)
open_unpack(h, mem, wild, raw) ==
    open_rows(h, mem, wild, 0,
              [grid |-> [i \in 0..(h.height - 1) |-> [j \in 0..(h.width - 1) |-> raw]],
               cur |-> 0, bad |-> {}])

-----------------------------------------------------------------------------
(* The allocator.  heap is the sequence of every block ever returned, so a *)
(* pointer is an index into it and 0 is NULL; a block is                   *)
(* [kind, st, frees, data] with st "live" or "freed" and frees the number  *)
(* of times free() was called on it.                                       *)

\* malloc/calloc returning a new block holding data
Alloc(hp, kind, data) ==
    Append(hp, [kind |-> kind, st |-> "live", frees |-> 0, data |-> data])

\* the pointer Alloc(hp, ...) returns
Fresh(hp) == Len(hp) + 1

\* free(p); free(NULL) does nothing
Free(hp, p) ==
    IF p = 0 THEN hp
    ELSE [hp EXCEPT ![p].st = "freed", ![p].frees = @ + 1]

Live(hp, p) == p \in 1..Len(hp) /\ hp[p].st = "live"

\* the pixel matrix behind a valid pixel_data pointer
Grid(hp, im) ==
    [i \in 0..(im.bmp_header.height - 1) |-> hp[hp[im.pixel_data].data[i]].data]

ValidGrid(hp, im) ==
    /\ Live(hp, im.pixel_data)
    /\ DOMAIN hp[im.pixel_data].data = 0..(im.bmp_header.height - 1)
    /\ \A i \in 0..(im.bmp_header.height - 1) :
           /\ Live(hp, hp[im.pixel_data].data[i])
           /\ DOMAIN hp[hp[im.pixel_data].data[i]].data = 0..(im.bmp_header.width - 1)

-----------------------------------------------------------------------------
(* new_image.  fail names the allocation call that returns NULL: 1 is the  *)
(* malloc of the row pointers, 2 + k the calloc of row k, height + 2 the   *)
(* calloc of the palette (which is also what calloc(0, ..) may return);    *)
(* 0 or anything larger: none.                                             *)

\* faulty variant: the doubling loop runs once too often
colors_exceed_loose(bpp, colors) == bpp < 30 /\ colors > Pow2(bpp + 1)

\* for (i = 0; i < bpp; ++i) max_colors *= 2;  colors > max_colors
\* (max_colors is a long: for bpp = 32 it is 2^32, above every int)
colors_exceed(bpp, colors) == bpp < 31 /\ colors > Pow2(bpp)

\* the header new_image fills in
new_header(width, height, bpp, colors) ==
    [ZeroHeader EXCEPT
        !.header_size = 40,
        !.bit_per_pixel = bpp,
        !.width = width,
        !.height = height,
        !.color_planes = 1,
        !.compression_type = 0,
        !.h_resolution = 2835,
        !.v_resolution = 2835,
        !.image_size = image_size_new(bpp, width, height),
        !.color_no = colors,
        !.important_color_no = colors]

\* while (i > 0) free(res.pixel_data[--i]);
RECURSIVE free_rows_down(_, _, _)
free_rows_down(hp, rows, i) ==
    IF i > 0 THEN free_rows_down(Free(hp, rows[i - 1]), rows, i - 1) ELSE hp

\* the row loop of new_image from row i on; rows are the pointers stored so
\* far in res.pixel_data (block pd).  Returns [heap, ok].
RECURSIVE new_rows(_, _, _, _, _, _, _)
new_rows(hp, pd, width, height, fail, i, rows) ==
    IF i < height
    THEN IF fail = 2 + i
         THEN [heap |-> Free(free_rows_down(hp, rows, i), pd), ok |-> FALSE]
         ELSE LET p == Fresh(hp)
                  h1 == Alloc(hp, "row", [j \in 0..(width - 1) |-> ZeroPixel])
                  r1 == [k \in 0..i |-> IF k = i THEN p ELSE rows[k]]
              IN  new_rows([h1 EXCEPT ![pd].data = r1], pd, width, height, fail, i + 1, r1)
    ELSE [heap |-> hp, ok |-> TRUE]

\* an uninitialised row pointer array of n entries, as malloc returns it:
\* no entry has been stored yet
NoRows == [k \in {} |-> 0]

new_image(hp, width, height, bpp, colors, fail) ==
    IF width < 1 \/ height < 1 \/ colors < 0
    THEN [image |-> EmptyImage, heap |-> hp]
    ELSE IF bpp \notin SupportedBpp
    THEN [image |-> EmptyImage, heap |-> hp]
    ELSE IF colors_exceed(bpp, colors)
    THEN [image |-> EmptyImage, heap |-> hp]
    ELSE LET h == new_header(width, height, bpp, colors)
         IN  IF fail = 1
             THEN [image |-> [bmp_header |-> h, pixel_data |-> 0, palette |-> 0],
                   heap |-> hp]
             ELSE LET pd == Fresh(hp)
                      rs == new_rows(Alloc(hp, "grid", NoRows), pd, width, height,
                                     fail, 0, NoRows)
                  IN  IF ~rs.ok
                      THEN [image |-> [bmp_header |-> h, pixel_data |-> pd, palette |-> 0],
                            heap |-> rs.heap]
                      ELSE IF fail = height + 2
                      THEN [image |-> [bmp_header |-> h, pixel_data |-> pd, palette |-> 0],
                            heap |-> rs.heap]
                      ELSE [image |-> [bmp_header |-> h, pixel_data |-> pd,
                                       palette |-> Fresh(rs.heap)],
                            heap |-> Alloc(rs.heap, "palette",
                                           [k \in 0..(colors - 1) |-> ZeroPixel])]

-----------------------------------------------------------------------------
(* destroy_image.  st is [heap, fault]; reads counts the reads of           *)
(* im->pixel_data[i].  Reading the row pointers through  *)
(* a pixel_data that is NULL, or that points to a freed block, is          *)
(* undefined: the first traps; the second either traps (stale = FALSE) or  *)
(* still finds the old pointers in the freed block (stale = TRUE) and      *)
(* frees them again.                                                       *)

FreeIn(st, p) ==
    [heap  |-> Free(st.heap, p),
     fault |-> st.fault \cup (IF p # 0 /\ st.heap[p].st = "freed"
                               THEN {"double_free"} ELSE {})]

\* for (i = 0; i < height; ++i) if (im->pixel_data[i]) free(im->pixel_data[i]);
RECURSIVE destroy_rows(_, _, _, _)
destroy_rows(st, rows, i, n) ==
    IF i < n
    THEN IF i \notin DOMAIN rows
         THEN destroy_rows([st EXCEPT !.fault = @ \cup {"wild_free"}], rows, i + 1, n)
         ELSE destroy_rows(FreeIn(st, rows[i]), rows, i + 1, n)
    ELSE st

\* faulty variant: the final memset is missing
destroy_image_keep(hp, im, stale) ==
    LET n  == im.bmp_header.height
        pd == im.pixel_data
    IN  IF n > 0 /\ pd = 0
        THEN [image |-> im, heap |-> hp, fault |-> {"null_deref"}, reads |-> 1]
        ELSE IF n > 0 /\ hp[pd].st = "freed" /\ ~stale
        THEN [image |-> im, heap |-> hp, fault |-> {"use_after_free"}, reads |-> 1]
        ELSE LET s0 == [heap |-> hp,
                        fault |-> IF n > 0 /\ hp[pd].st = "freed"
                                  THEN {"use_after_free"} ELSE {}]
                 s1 == destroy_rows(s0, IF n > 0 THEN hp[pd].data ELSE NoRows, 0, n)
                 s2 == FreeIn(s1, pd)
                 s3 == FreeIn(s2, im.palette)
             IN  [image |-> im, heap |-> s3.heap, fault |-> s3.fault, reads |-> n]

destroy_image(hp, im, stale) ==
    LET n  == im.bmp_header.height
        pd == im.pixel_data
    IN  IF n > 0 /\ pd = 0
        THEN [image |-> im, heap |-> hp, fault |-> {"null_deref"}, reads |-> 1]
        ELSE IF n > 0 /\ hp[pd].st = "freed" /\ ~stale
        THEN [image |-> im, heap |-> hp, fault |-> {"use_after_free"}, reads |-> 1]
        ELSE LET s0 == [heap |-> hp,
                        fault |-> IF n > 0 /\ hp[pd].st = "freed"
                                  THEN {"use_after_free"} ELSE {}]
                 s1 == destroy_rows(s0, IF n > 0 THEN hp[pd].data ELSE NoRows, 0, n)
                 s2 == FreeIn(s1, pd)
                 s3 == FreeIn(s2, im.palette)
             IN  [image |-> EmptyImage, heap |-> s3.heap, fault |-> s3.fault,
                  reads |-> n]

-----------------------------------------------------------------------------
(* copy_image, on two images with valid grids *)

\* memcpy(to.pixel_data[i], from.pixel_data[i], min_w * sizeof (Pixel)), i < min_h
RECURSIVE copy_rows(_, _, _, _, _, _)
copy_rows(hp, to, from, i, min_h, min_w) ==
    IF i < min_h
    THEN LET dst == hp[to.pixel_data].data[i]
             src == hp[from.pixel_data].data[i]
         IN  copy_rows([hp EXCEPT ![dst].data =
                                [j \in DOMAIN @ |-> IF j < min_w THEN hp[src].data[j] ELSE @[j]]],
                       to, from, i + 1, min_h, min_w)
    ELSE hp

\* faulty variant: the row loop starts at 1
copy_image_skip(hp, to, from) ==
    [heap |-> copy_rows(hp, to, from, 1,
                        MIN(to.bmp_header.height, from.bmp_header.height),
                        MIN(to.bmp_header.width, from.bmp_header.width)),
     ret  |-> 0]

copy_image(hp, to, from) ==
    [heap |-> copy_rows(hp, to, from, 0,
                        MIN(to.bmp_header.height, from.bmp_header.height),
                        MIN(to.bmp_header.width, from.bmp_header.width)),
     ret  |-> 0]

-----------------------------------------------------------------------------
(* The file on disk: [exists, parts, file_type, file_size, bmp_offset,     *)
(* header, palette, pixels].  parts counts the sections written in full:   *)
(* the File_header, the Bmp_header (its first header_size bytes), the      *)
(* palette, the pixel data.                                                *)

BM == 19778   \* 0x4D42
SIZEOF_FILE_HEADER == 14
SIZEOF_BMP_HEADER == 124

\* struct Image as the build lays it out: the offsets of its two pointers
\* and its size, with 4-byte pointers and with 8-byte pointers aligned to 8
ImageLayouts ==
    {[pixel_data |-> 124, palette |-> 128, size |-> 132],
     [pixel_data |-> 128, palette |-> 136, size |-> 144]}

\* what n bytes stored from &image.bmp_header on reach beyond the header
Overrun(lay, n) ==
    (IF n > lay.pixel_data THEN {"pixel_data"} ELSE {})
    \cup (IF n > lay.palette THEN {"palette"} ELSE {})
    \cup (IF n > lay.size THEN {"past_image"} ELSE {})

\* fread(&image.bmp_header, h_size, 1, f): the bytes it stores
header_bytes(h_size, arrived) == IF arrived THEN h_size ELSE 0

EmptyFile ==
    [exists |-> TRUE, parts |-> 0, file_type |-> 0, file_size |-> 0, bmp_offset |-> 0,
     header |-> ZeroHeader, palette |-> << >>, pixels |-> << >>]

(* save_bitmap.  io names the stdio call that fails: 1 fopen, 2..5 the     *)
(* fwrite of the file header, the bitmap header, the palette, the pixel    *)
(* data (0: none); fail = 1: the calloc of the scratch buffer returns      *)
(* NULL.  Returns [file, heap, ret, fault, pack].                          *)
save_bitmap(hp, im, old, past, io, fail) ==
    LET h == im.bmp_header
        bmp_offset == SIZEOF_FILE_HEADER + h.header_size + h.color_no * 4
        f1 == [EmptyFile EXCEPT !.parts = 1, !.file_type = BM,
                                !.file_size = bmp_offset + h.image_size,
                                !.bmp_offset = bmp_offset]
        f2 == [f1 EXCEPT !.parts = 2, !.header = HeaderPrefix(h, h.header_size)]
        f3 == [f2 EXCEPT !.parts = 3,
                         !.palette = IF h.color_no # 0 THEN hp[im.palette].data ELSE << >>]
        bs == save_pack(h, Grid(hp, im), past)
        h1 == Alloc(hp, "buffer", << >>)
        h2 == Free(h1, Fresh(hp))
        none == NewBuf(0)
    IN  IF io = 1 THEN [file |-> old, heap |-> hp, ret |-> 1, fault |-> {}, pack |-> none]
        ELSE IF io = 2
        THEN [file |-> EmptyFile, heap |-> hp, ret |-> 1, fault |-> {}, pack |-> none]
        ELSE IF io = 3
        THEN [file |-> f1, heap |-> hp, ret |-> 1, fault |-> {}, pack |-> none]
        ELSE IF h.color_no # 0 /\ im.palette = 0
        THEN [file |-> f2, heap |-> hp, ret |-> 1, fault |-> {"null_deref"}, pack |-> none]
        ELSE IF h.color_no # 0 /\ io = 4
        THEN [file |-> f2, heap |-> hp, ret |-> 1, fault |-> {}, pack |-> none]
        ELSE IF fail = 1
        THEN [file |-> f3, heap |-> hp, ret |-> 1, fault |-> {"null_deref"}, pack |-> none]
        ELSE IF bs.bad # {}
        THEN [file |-> f3, heap |-> h1, ret |-> 1, fault |-> {"heap_overflow"}, pack |-> bs]
        ELSE IF io = 5
        THEN [file |-> f3, heap |-> h2, ret |-> 1, fault |-> {}, pack |-> bs]
        ELSE [file |-> [f3 EXCEPT !.parts = 4, !.pixels = bs.mem],
              heap |-> h2, ret |-> 0, fault |-> {}, pack |-> bs]

(* open_bitmap.  io names the stdio call that fails: 1 fopen, 2..6 the     *)
(* fread of the file header, of h_size, of the bitmap header, of the       *)
(* palette, of the pixel data (0: none).  fail names the allocation that   *)
(* returns NULL: 1 the palette, 2 the row pointers, 3 + k row k,           *)
(* 3 + height the scratch buffer (0: none).  part: whether the bytes of a  *)
(* failing fread of the header had arrived.  wild, raw: see open_unpack.   *)
(* lay: the layout of struct Image.  Storing more than sizeof (Bmp_header) *)
(* bytes at &image.bmp_header is undefined: it is recorded as the fault    *)
(* "header_overflow", with the members it reaches in `over`.               *)
(* Returns [image, heap, fault, failed, bad, copied, over].                *)

\* the row loop of open_bitmap from row i on.  Returns [heap, ok].
RECURSIVE open_alloc_rows(_, _, _, _, _, _, _)
open_alloc_rows(hp, pd, h, raw, fail, i, rows) ==
    IF i < h.height
    THEN IF fail = 3 + i
         THEN [heap |-> free_rows_down(hp, rows, i), ok |-> FALSE]
         ELSE LET p == Fresh(hp)
                  h1 == Alloc(hp, "row", [j \in 0..(h.width - 1) |-> raw])
                  r1 == [k \in 0..i |-> IF k = i THEN p ELSE rows[k]]
              IN  open_alloc_rows([h1 EXCEPT ![pd].data = r1], pd, h, raw, fail, i + 1, r1)
    ELSE [heap |-> hp, ok |-> TRUE]

\* for (i = 0; i < h->height; ++i) free(image.pixel_data[i]);
RECURSIVE free_rows_up(_, _, _, _)
free_rows_up(hp, rows, i, n) ==
    IF i < n THEN free_rows_up(Free(hp, rows[i]), rows, i + 1, n) ELSE hp

\* the decoded matrix stored into the rows of pixel_data
StoreGrid(hp, pd, grid) ==
    [p \in 1..Len(hp) |->
        IF \E i \in DOMAIN hp[pd].data : hp[pd].data[i] = p
        THEN [hp[p] EXCEPT !.data = grid[CHOOSE i \in DOMAIN hp[pd].data : hp[pd].data[i] = p]]
        ELSE hp[p]]

open_bitmap(hp, f, io, fail, part, wild, raw, lay) ==
    LET h_size == f.header.header_size
        copied == header_bytes(h_size, io # 4 \/ part)
        smash  == IF copied > SIZEOF_BMP_HEADER THEN {"header_overflow"} ELSE {}
        None(image) ==
            [image |-> image, heap |-> hp, fault |-> {}, failed |-> TRUE, bad |-> {},
             copied |-> 0, over |-> {}]
        Out(image, heap_, fault_, failed) ==
            [image |-> image, heap |-> heap_, fault |-> fault_ \cup smash,
             failed |-> failed, bad |-> {},
             copied |-> copied, over |-> Overrun(lay, copied)]
        Hdr(hd) == [bmp_header |-> hd, pixel_data |-> 0, palette |-> 0]
        h      == HeaderPrefix(f.header, h_size)
        allocated_palette == h.color_no # 0
        pal == IF allocated_palette THEN Fresh(hp) ELSE 0
        hp1 == IF allocated_palette THEN Alloc(hp, "palette", f.palette) ELSE hp
        pd  == Fresh(hp1)
        rs  == open_alloc_rows(Alloc(hp1, "grid", NoRows), pd, h, raw, fail, 0, NoRows)
        buffer == Fresh(rs.heap)
        hp2 == Alloc(rs.heap, "buffer", << >>)
        mem == [k \in 0..(h.image_size - 1) |->
                   IF k \in DOMAIN f.pixels THEN f.pixels[k] ELSE 0]
        ds  == open_unpack(h, mem, wild, raw)
        FreeAll(x) == Free(Free(free_rows_up(x, x[pd].data, 0, h.height), pd), pal)
    IN  IF ~f.exists \/ io = 1 THEN None(EmptyImage)
        ELSE IF io = 2 THEN None(EmptyImage)
        ELSE IF f.file_type # BM THEN None(EmptyImage)
        ELSE IF io = 3 THEN None(EmptyImage)
        ELSE IF io = 4 THEN Out(Hdr(IF part THEN h ELSE ZeroHeader), hp, {}, TRUE)
        ELSE IF h.bit_per_pixel \notin SupportedBpp THEN Out(Hdr(h), hp, {}, TRUE)
        ELSE IF allocated_palette /\ fail = 1 THEN Out(Hdr(h), hp, {"null_deref"}, TRUE)
        ELSE IF allocated_palette /\ io = 5 THEN Out(Hdr(h), Free(hp1, pal), {}, TRUE)
        ELSE IF SIZEOF_FILE_HEADER + h_size + h.color_no * 4 # f.bmp_offset
        THEN Out(Hdr(h), hp1, {"assert"}, TRUE)
        ELSE IF fail = 2 THEN Out(Hdr(h), Free(hp1, pal), {}, TRUE)
        ELSE IF ~rs.ok THEN Out(Hdr(h), Free(rs.heap, pal), {}, TRUE)
        ELSE IF fail = 3 + h.height THEN Out(Hdr(h), FreeAll(rs.heap), {}, TRUE)
        ELSE IF io = 6 THEN Out(Hdr(h), FreeAll(hp2), {}, TRUE)
        ELSE [image  |-> [bmp_header |-> h, pixel_data |-> pd, palette |-> pal],
              heap   |-> Free(StoreGrid(hp2, pd, ds.grid), buffer),
              fault  |-> smash,
              failed |-> FALSE,
              bad    |-> ds.bad,
              copied |-> copied,
              over   |-> Overrun(lay, copied)]

-----------------------------------------------------------------------------
(* Bounds of the model *)

MaxWidth == 5
MaxHeight == 2
MaxOps == 3

\* the arguments tried: each supported depth and an unsupported one;
\* colour counts around the limits of depths 1 and 4, and a negative one
BppArgs == SupportedBpp \cup {2}
ColorArgs == {-1, 0, 2, 3, 17}
ImageNames == {"a", "b"}
NoFile == [exists |-> FALSE]

-----------------------------------------------------------------------------
(* The image store as a state machine.  The caller declares one Image,     *)
(* "a", creates it with new_image as its first call and then calls         *)
(* destroy_image on it, any number of times.                               *)

Init ==
    /\ op = "init"
    /\ args = [none |-> TRUE]
    /\ ret = [code |-> 0]
    /\ img = [s \in ImageNames |-> EmptyImage]
    /\ heap = << >>
    /\ file = NoFile
    /\ fault = {}
    /\ steps = 0

\* a crashed program runs nothing more
Running == fault = {} /\ steps < MaxOps

\* im = new_image(width, height, bpp, colors), im holding no image yet
NewImage(s) ==
    /\ Running
    /\ op = "init"
    /\ \E width \in 0..MaxWidth, height \in 0..MaxHeight,
          bpp \in BppArgs, colors \in ColorArgs :
      \E fail \in 0..(height + 2) :
        LET r == new_image(heap, width, height, bpp, colors, fail)
        IN  /\ op' = "new_image"
            /\ args' = [im |-> s, width |-> width, height |-> height, bpp |-> bpp,
                        colors |-> colors, fail |-> fail]
            /\ ret' = [code |-> 0]
            /\ img' = [img EXCEPT ![s] = r.image]
            /\ heap' = r.heap
            /\ steps' = steps + 1
            /\ UNCHANGED <<file, fault>>

\* destroy_image(&im)
DestroyImage(s) ==
    /\ Running
    /\ op # "init"
    /\ \E stale \in BOOLEAN :
        LET r == destroy_image(heap, img[s], stale)
        IN  /\ op' = "destroy_image"
            /\ args' = [im |-> s, was |-> img[s]]
            /\ ret' = [code |-> 0, reads |-> r.reads]
            /\ img' = [img EXCEPT ![s] = r.image]
            /\ heap' = r.heap
            /\ fault' = r.fault
            /\ steps' = steps + 1
            /\ UNCHANGED file

Next == NewImage("a") \/ DestroyImage("a")

Spec == Init /\ [][Next]_vars

-----------------------------------------------------------------------------
(* Properties of the image store (specification Spec) *)

\* the blocks an image owns: its row pointer array, its rows, its palette
BlocksOf(hp, im) ==
    {im.pixel_data} \cup {hp[im.pixel_data].data[i] : i \in DOMAIN hp[im.pixel_data].data}
        \cup (IF im.palette = 0 THEN {} ELSE {im.palette})

\* an image as a successful new_image or open_bitmap hands it out
ValidImage(hp, im) ==
    /\ im.bmp_header.width >= 1
    /\ im.bmp_header.height >= 1
    /\ ValidGrid(hp, im)
    /\ im.palette = 0 \/ Live(hp, im.palette)

\* the result new_image promises for valid arguments a
BlankImage(hp, im, a) ==
    /\ ValidGrid(hp, im)
    /\ Grid(hp, im) = [i \in 0..(a.height - 1) |-> [j \in 0..(a.width - 1) |-> ZeroPixel]]
    /\ Live(hp, im.palette)
    /\ hp[im.palette].data = [k \in 0..(a.colors - 1) |-> ZeroPixel]
    /\ im.bmp_header.width = a.width
    /\ im.bmp_header.height = a.height
    /\ im.bmp_header.bit_per_pixel = a.bpp
    /\ im.bmp_header.color_no = a.colors

\* colors > 2^bpp, for an int colors
MoreThanDepthAllows(bpp, colors) == bpp <= 30 /\ colors > Pow2(bpp)

RejectedAsClaimed(a) ==
    \/ a.width < 1
    \/ a.height < 1
    \/ a.bpp \notin {1, 4, 8, 16, 24, 32}
    \/ MoreThanDepthAllows(a.bpp, a.colors)

\* C5 as stated: new_image returns the empty Image exactly when width < 1,
\* height < 1, the depth is unsupported or colors > 2^depth, and otherwise,
\* when no allocation fails, a blank height x width image with a palette of
\* `colors` zero entries and the header fields equal to the arguments.
C5_AsStated ==
    op = "new_image" =>
        /\ RejectedAsClaimed(args) => img[args.im] = EmptyImage
        /\ (~RejectedAsClaimed(args) /\ args.fail = 0) =>
               BlankImage(heap, img[args.im], args)

\* C5 amended: a negative colour count is rejected too; new_image returns
\* the empty Image when width < 1, height < 1, colors < 0, the depth is
\* unsupported or colors > 2^depth, and otherwise, when no allocation
\* fails, the blank image described above.
C5_NewImageValidates ==
    op = "new_image" =>
        /\ (RejectedAsClaimed(args) \/ args.colors < 0) => img[args.im] = EmptyImage
        /\ (~RejectedAsClaimed(args) /\ args.colors >= 0 /\ args.fail = 0) =>
               BlankImage(heap, img[args.im], args)

\* new_image(w, h, 1, 2) succeeded
C5_Witness ==
    /\ op = "new_image"
    /\ args.bpp = 1 /\ args.colors = 2 /\ args.fail = 0
    /\ img[args.im] # EmptyImage
    /\ BlankImage(heap, img[args.im], args)

\* the smallest n with n * d >= x
CeilDiv(x, d) == CHOOSE n \in 0..x : n * d >= x /\ (n = 0 \/ (n - 1) * d < x)

NewSucceeded ==
    /\ op = "new_image"
    /\ ~RejectedAsClaimed(args) /\ args.colors >= 0 /\ args.fail = 0

\* C6: after a successful new_image, image_size = height * (row_byte_length
\* + padding) with row_byte_length = ceil(width * depth / 8) and padding =
\* (4 - row_byte_length mod 4) mod 4, so a framed row is a multiple of 4
\* bytes (9 + 3 for width 3 at 24 bpp, 1 + 3 for width 5 at 1 bpp); and
\* new_image, open_bitmap and save_bitmap compute the same padding.
C6_RowFraming ==
    NewSucceeded =>
        LET h   == img[args.im].bmp_header
            rbl == CeilDiv(args.width * args.bpp, 8)
            padding == (4 - (rbl % 4)) % 4
        IN  /\ h.image_size = args.height * (rbl + padding)
            /\ (rbl + padding) % 4 = 0
            /\ pad_new(args.bpp, args.width) = padding
            /\ pad_open(h) = padding
            /\ pad_save(h) = padding
            /\ (args.width = 3 /\ args.bpp = 24) => (rbl = 9 /\ padding = 3)
            /\ (args.width = 5 /\ args.bpp = 1) => (rbl = 1 /\ padding = 3)

\* new_image(5, h, 1, c) succeeded: one byte of pixels and three of padding
C6_Witness ==
    /\ NewSucceeded
    /\ args.width = 5 /\ args.bpp = 1
    /\ img[args.im].bmp_header.image_size = 4 * args.height

\* C7: destroy_image on an image with valid pointers frees each of its rows,
\* its row pointer array and its palette exactly once, frees nothing else
\* and leaves the Image empty; on an empty Image (never created, or already
\* destroyed) it frees nothing and reads nothing through pixel_data.
C7_DestroyOnce ==
    [][op' = "destroy_image" =>
        LET im == img[args'.im]
        IN  /\ ValidImage(heap, im) =>
                   /\ img'[args'.im] = EmptyImage
                   /\ fault' = {}
                   /\ Len(heap') = Len(heap)
                   /\ \A p \in 1..Len(heap) :
                          IF p \in BlocksOf(heap, im)
                          THEN heap[p].frees = 0 /\ heap'[p].frees = 1
                                                 /\ heap'[p].st = "freed"
                          ELSE heap'[p] = heap[p]
            /\ im = EmptyImage =>
                   /\ img'[args'.im] = EmptyImage
                   /\ heap' = heap
                   /\ fault' = {}
                   /\ ret'.reads = 0]_vars

\* a second destroy_image of the same Image, after the first freed its
\* blocks, has run
C7_Witness ==
    /\ op = "destroy_image"
    /\ args.was = EmptyImage
    /\ img[args.im] = EmptyImage
    /\ Len(heap) >= 3
    /\ \A p \in 1..Len(heap) : heap[p].st = "freed" /\ heap[p].frees = 1

\* an allocation of new_image(args) returned NULL
NewAllocFailed ==
    /\ op = "new_image"
    /\ ~RejectedAsClaimed(args) /\ args.colors >= 0
    /\ args.fail \in 1..(args.height + 2)

\* C10: when an allocation inside new_image fails, every row already
\* allocated is freed and the result is an empty Image: its pixel_data is
\* NULL and its header describes no grid, so that a destroy_image of the
\* result frees nothing twice (and hits no other memory error).
C10_NewImageFailsClean ==
    /\ NewAllocFailed =>
           /\ img[args.im].pixel_data = 0
           /\ img[args.im].bmp_header.height = 0
           /\ \A p \in 1..Len(heap) : heap[p].kind = "row" => heap[p].st = "freed"
    /\ op = "destroy_image" => fault = {}

-----------------------------------------------------------------------------
(* copy_image as a state machine (specification SpecCopy).  The caller has *)
(* two images, "a" and "b", made by new_image with any sizes up to the     *)
(* bounds, and has painted every pixel of each with a value that tells the *)
(* image and the position; it then copies one into the other.              *)

\* the caller's pixel_data[i][j] = px[i][j] for every pixel of im
Paint(hp, im, px) == StoreGrid(hp, im.pixel_data, px)

PaintA(i, j) == Pixel(10 * i + j + 1, 10 * i + j + 2, 10 * i + j + 3, 10 * i + j + 4)
PaintB(i, j) == Pixel(200 - 10 * i - j, 201 - 10 * i - j, 202 - 10 * i - j, 203 - 10 * i - j)

InitCopy ==
    /\ op = "init"
    /\ args = [none |-> TRUE]
    /\ ret = [code |-> 0]
    /\ file = NoFile
    /\ fault = {}
    /\ steps = 0
    /\ \E wa \in 1..MaxWidth, ha \in 1..MaxHeight,
          wb \in 1..MaxWidth, hb \in 1..MaxHeight :
          LET ra == new_image(<< >>, wa, ha, 24, 0, 0)
              rb == new_image(ra.heap, wb, hb, 8, 2, 0)
              pa == [i \in 0..(ha - 1) |-> [j \in 0..(wa - 1) |-> PaintA(i, j)]]
              pb == [i \in 0..(hb - 1) |-> [j \in 0..(wb - 1) |-> PaintB(i, j)]]
          IN  /\ img = [s \in ImageNames |-> IF s = "a" THEN ra.image ELSE rb.image]
              /\ heap = Paint(Paint(rb.heap, ra.image, pa), rb.image, pb)

\* copy_image(to, from)
CopyImage(to, from) ==
    /\ Running
    /\ ValidGrid(heap, img[to])
    /\ ValidGrid(heap, img[from])
    /\ LET r == copy_image(heap, img[to], img[from])
       IN  /\ op' = "copy_image"
           /\ args' = [to |-> to, from |-> from]
           /\ ret' = [code |-> r.ret]
           /\ heap' = r.heap
           /\ steps' = steps + 1
           /\ UNCHANGED <<img, file, fault>>

NextCopy == CopyImage("a", "b") \/ CopyImage("b", "a")

SpecCopy == InitCopy /\ [][NextCopy]_vars

\* C8: copy_image(to, from) sets to.pixel[i][j] = from.pixel[i][j] exactly
\* for i < min(heights), j < min(widths); every other pixel of `to`, the
\* header and palette of `to` and all of `from` stay as they were; returns 0.
C8_CopyFrame ==
    [][op' = "copy_image" =>
        LET to   == img[args'.to]
            from == img[args'.from]
            min_h == IF to.bmp_header.height < from.bmp_header.height
                     THEN to.bmp_header.height ELSE from.bmp_header.height
            min_w == IF to.bmp_header.width < from.bmp_header.width
                     THEN to.bmp_header.width ELSE from.bmp_header.width
        IN  /\ ret'.code = 0
            /\ img' = img
            /\ \A i \in 0..(to.bmp_header.height - 1), j \in 0..(to.bmp_header.width - 1) :
                   Grid(heap', to)[i][j] =
                       IF i < min_h /\ j < min_w
                       THEN Grid(heap, from)[i][j] ELSE Grid(heap, to)[i][j]
            /\ Grid(heap', from) = Grid(heap, from)
            /\ heap'[to.pixel_data] = heap[to.pixel_data]
            /\ to.palette # 0 => heap'[to.palette] = heap[to.palette]
            /\ from.palette # 0 => heap'[from.palette] = heap[from.palette]
            /\ Len(heap') = Len(heap)
            /\ \A p \in 1..Len(heap) : heap'[p].st = heap[p].st]_vars

\* a smaller image was copied into a larger one: the top-left pixel of `to`
\* now is that of `from`, its last pixel is still its own
C8_Witness ==
    /\ op = "copy_image"
    /\ args.to = "a" /\ args.from = "b"
    /\ img["a"].bmp_header.width > img["b"].bmp_header.width
    /\ img["a"].bmp_header.height > img["b"].bmp_header.height
    /\ Grid(heap, img["a"])[0][0] = PaintB(0, 0)
    /\ Grid(heap, img["a"])[img["a"].bmp_header.height - 1][img["a"].bmp_header.width - 1]
           = PaintA(img["a"].bmp_header.height - 1, img["a"].bmp_header.width - 1)

-----------------------------------------------------------------------------
(* The bitmap transport as a state machine (specification SpecFile).  The  *)
(* caller has made image "a" with new_image (any supported depth, with or  *)
(* without a palette) and has set its pixels and palette entries to values *)
(* the depth can hold; it saves "a" (first, if at all), opens the file on  *)
(* disk into "b" and destroys "b".  The disk may hold a foreign file       *)
(* first.                                                                  *)

FileMaxWidth == 3
FileMaxHeight == 2
Patterns == 3

\* values a caller may store, cut to what an index of bpp bits can hold
Sample(n) == <<1, 0, 15, 6, 255, 128>>[(n % 6) + 1]

\* the n-th pixel value tried at depth bpp, given the masks new_image
\* leaves in the header (all zero: a 16 or 32 bpp pixel holds nothing)
SamplePixel(bpp, n) ==
    CASE bpp \in {1, 4, 8} -> Pixel(0, 0, 0, Sample(n) % Pow2(bpp))
      [] bpp = 24 -> Pixel(Sample(n), Sample(n + 1), Sample(n + 2), 0)
      [] OTHER -> ZeroPixel

\* the caller's palette[k] = (10 + k, 20 + k, 30 + k, 40 + k)
PaintPalette(hp, im) ==
    IF im.palette = 0 THEN hp
    ELSE [hp EXCEPT ![im.palette].data =
                        [k \in DOMAIN @ |-> Pixel(10 + k, 20 + k, 30 + k, 40 + k)]]

BadMagicFile ==
    [EmptyFile EXCEPT !.parts = 4, !.file_type = 19777, !.file_size = 58, !.bmp_offset = 54,
        !.header = new_header(1, 1, 8, 0), !.pixels = [k \in 0..3 |-> 0]]
BadDepthFile ==
    [EmptyFile EXCEPT !.parts = 4, !.file_type = BM, !.file_size = 66, !.bmp_offset = 62,
        !.header = [new_header(1, 2, 8, 2) EXCEPT !.bit_per_pixel = 2],
        !.palette = [k \in 0..1 |-> ZeroPixel],
        !.pixels = [k \in 0..3 |-> 0]]

InitFile ==
    /\ op = "init"
    /\ args = [none |-> TRUE]
    /\ ret = [code |-> 0]
    /\ fault = {}
    /\ steps = 0
    /\ file \in {NoFile, BadMagicFile, BadDepthFile}
    /\ \E w \in 1..FileMaxWidth, h \in 1..FileMaxHeight, bpp \in SupportedBpp,
          colors \in {0, 2}, k \in 0..(Patterns - 1) :
          LET r == new_image(<< >>, w, h, bpp, colors, 0)
              px == [i \in 0..(h - 1) |->
                        [j \in 0..(w - 1) |-> SamplePixel(bpp, i * w + j + k)]]
          IN  /\ img = [s \in ImageNames |-> IF s = "a" THEN r.image ELSE EmptyImage]
              /\ heap = PaintPalette(Paint(r.heap, r.image, px), r.image)

\* what rows and mallocs hold before they are written: two samples
RawPixels == {ZeroPixel, Pixel(170, 171, 172, 173)}

\* save_bitmap(im, "file"): the caller saves "a" as its first call and "b"
\* right after opening it; at most one call inside it fails, since it
\* returns at the first failure
SaveBitmap(s) ==
    /\ Running
    /\ op = (IF s = "a" THEN "init" ELSE "open_bitmap")
    /\ ValidGrid(heap, img[s])
    /\ \E past \in RawPixels, io \in 0..5, fail \in 0..1 :
        LET r == save_bitmap(heap, img[s], file, past, io, fail)
        IN  /\ io = 0 \/ fail = 0
            /\ op' = "save_bitmap"
            /\ args' = [im |-> s, io |-> io, fail |-> fail]
            /\ ret' = [code |-> r.ret, pack |-> r.pack]
            /\ file' = r.file
            /\ heap' = r.heap
            /\ fault' = r.fault
            /\ steps' = steps + 1
            /\ UNCHANGED img

\* im = open_bitmap("file"), im holding no image; the file is absent,
\* complete, or ends somewhere in its pixel data; at most one call inside
\* it fails; the layout of struct Image matters only to a header larger
\* than Bmp_header
OpenBitmap(s) ==
    /\ Running
    /\ op \in {"init", "save_bitmap"}
    /\ img[s] = EmptyImage
    /\ file.exists => file.parts >= 3
    /\ \E io \in 0..6, fail \in 0..(FileMaxHeight + 3), raw \in RawPixels :
      \E part \in IF io = 4 THEN BOOLEAN ELSE {FALSE},
         lay \in IF file.exists /\ file.header.header_size > SIZEOF_BMP_HEADER
                 THEN ImageLayouts
                 ELSE {CHOOSE l \in ImageLayouts : l.size = 144} :
        LET r == open_bitmap(heap, file, io, fail, part, raw[B], raw, lay)
        IN  /\ io = 0 \/ fail = 0
            /\ op' = "open_bitmap"
            /\ args' = [im |-> s, io |-> io, fail |-> fail, heap_before |-> Len(heap)]
            /\ ret' = [code |-> IF r.failed THEN 1 ELSE 0, failed |-> r.failed,
                       bad |-> r.bad, copied |-> r.copied, over |-> r.over]
            /\ img' = [img EXCEPT ![s] = r.image]
            /\ heap' = r.heap
            /\ fault' = r.fault
            /\ steps' = steps + 1
            /\ UNCHANGED file

NextFile == SaveBitmap("a") \/ OpenBitmap("b") \/ DestroyImage("b")

SpecFile == InitFile /\ [][NextFile]_vars

\* the channels of a Pixel that a depth stores in the file
StoredChannels(bpp) ==
    CASE bpp \in {1, 4, 8} -> {A}
      [] bpp \in {16, 24} -> {B, G, R}
      [] OTHER -> {B, G, R, A}

\* open_bitmap returned an image read from the file save_bitmap wrote
OpenedSaved ==
    /\ op = "open_bitmap"
    /\ ~ret.failed
    /\ fault = {}
    /\ file.parts = 4
    /\ ValidGrid(heap, img["a"])
    /\ ValidGrid(heap, img["b"])

\* C2: an image made by new_image and painted with values its depth can
\* hold, saved with save_bitmap and read back with open_bitmap, comes back
\* with the same header fields, the same palette and the same pixel grid
\* (compared on the channels the depth stores).
C2_SaveOpenRoundTrip ==
    OpenedSaved =>
        LET a == img["a"]
            b == img["b"]
        IN  /\ b.bmp_header = a.bmp_header
            /\ \A k \in 0..(a.bmp_header.color_no - 1) :
                   b.palette # 0 /\ heap[b.palette].data[k] = heap[a.palette].data[k]
            /\ \A i \in 0..(a.bmp_header.height - 1), j \in 0..(a.bmp_header.width - 1),
                  c \in StoredChannels(a.bmp_header.bit_per_pixel) :
                    Grid(heap, b)[i][j][c] = Grid(heap, a)[i][j][c]

\* open_bitmap failed in one of the ways C9 lists
OpenFailed ==
    /\ op = "open_bitmap"
    /\ ret.failed
    /\ fault = {}

\* C9: when open_bitmap fails (fopen or fread error, bad magic number,
\* unsupported depth, failed allocation of the row pointers, of a row or of
\* the scratch buffer) every block the call allocated has been freed and
\* the Image returned is empty: NULL grid, NULL palette, zero width and
\* height, so that a destroy_image of it touches no memory; and a bad magic
\* number fails before anything is allocated.
C9_OpenFailsClean ==
    /\ OpenFailed =>
           /\ \A p \in (args.heap_before + 1)..Len(heap) : heap[p].st = "freed"
           /\ img[args.im].pixel_data = 0
           /\ img[args.im].palette = 0
           /\ img[args.im].bmp_header.width = 0
           /\ img[args.im].bmp_header.height = 0
           /\ (file.exists /\ file.file_type # BM) => Len(heap) = args.heap_before
    /\ (op = "destroy_image" /\ args.was.pixel_data = 0) =>
           fault = {} /\ ret.reads = 0

-----------------------------------------------------------------------------
(* The pixel codec on its own terms (specification SpecCodec).  As above,  *)
(* but the caller of new_image has also set the channel masks of a 16 or   *)
(* 32 bpp image, with header_size 56 so that the masks travel in the file, *)
(* and every component of every pixel fits the width of its mask.          *)

\* the masks tried: 5-6-5 and 5-5-5 at 16 bpp, 8-8-8-8 at 32 bpp
MaskLayouts(bpp) ==
    CASE bpp = 16 -> {[red_mask |-> 11..15, green_mask |-> 5..10, blue_mask |-> 0..4,
                       alpha_mask |-> {}],
                      [red_mask |-> 10..14, green_mask |-> 5..9, blue_mask |-> 0..4,
                       alpha_mask |-> {}]}
      [] bpp = 32 -> {[red_mask |-> 16..23, green_mask |-> 8..15, blue_mask |-> 0..7,
                       alpha_mask |-> 24..31]}
      [] OTHER -> {[red_mask |-> {}, green_mask |-> {}, blue_mask |-> {},
                    alpha_mask |-> {}]}

\* the header of new_image with the caller's masks stored into it
WithMasks(h, m) ==
    IF h.bit_per_pixel \in {16, 32}
    THEN [h EXCEPT !.header_size = 56,
                   !.red_mask = m.red_mask, !.green_mask = m.green_mask,
                   !.blue_mask = m.blue_mask, !.alpha_mask = m.alpha_mask]
    ELSE h

\* the n-th pixel value tried under header h
CodecPixel(h, n) ==
    CASE h.bit_per_pixel \in {1, 4, 8} ->
             Pixel(0, 0, 0, Sample(n) % Pow2(h.bit_per_pixel))
      [] h.bit_per_pixel = 24 -> Pixel(Sample(n), Sample(n + 1), Sample(n + 2), 0)
      [] OTHER -> Pixel(Sample(n) % Pow2(Cardinality(h.blue_mask)),
                        Sample(n + 1) % Pow2(Cardinality(h.green_mask)),
                        Sample(n + 2) % Pow2(Cardinality(h.red_mask)),
                        Sample(n + 3) % Pow2(Cardinality(h.alpha_mask)))

InitCodec ==
    /\ op = "init"
    /\ args = [none |-> TRUE]
    /\ ret = [code |-> 0]
    /\ fault = {}
    /\ steps = 0
    /\ file = NoFile
    /\ \E w \in 1..FileMaxWidth, h \in 1..FileMaxHeight, bpp \in SupportedBpp,
          k \in 0..(Patterns - 1) :
        \E m \in MaskLayouts(bpp) :
          LET r  == new_image(<< >>, w, h, bpp, 0, 0)
              im == [r.image EXCEPT !.bmp_header = WithMasks(@, m)]
              px == [i \in 0..(h - 1) |->
                        [j \in 0..(w - 1) |-> CodecPixel(im.bmp_header, i * w + j + k)]]
          IN  /\ img = [s \in ImageNames |-> IF s = "a" THEN im ELSE EmptyImage]
              /\ heap = Paint(r.heap, im, px)

NextCodec == SaveBitmap("a") \/ OpenBitmap("b")

SpecCodec == InitCodec /\ [][NextCodec]_vars

\* C1: at every supported depth and for every width and height, the bytes
\* save_bitmap packs from a pixel grid, unpacked by open_bitmap, give back
\* the same values in the channels that depth stores, when each component
\* is representable at that depth.
C1_PackUnpack ==
    OpenedSaved =>
        \A i \in 0..(img["a"].bmp_header.height - 1),
           j \in 0..(img["a"].bmp_header.width - 1),
           c \in StoredChannels(img["a"].bmp_header.bit_per_pixel) :
            /\ i \in DOMAIN Grid(heap, img["b"])
            /\ j \in DOMAIN Grid(heap, img["b"])[i]
            /\ Grid(heap, img["b"])[i][j][c] = Grid(heap, img["a"])[i][j][c]

-----------------------------------------------------------------------------
(* The steganographic channel.  A walk over the image is [grid, pos, oob]: *)
(* the pixel matrix, the indices (i, j, ch) and whether pixel_data[i] was  *)
(* taken with i >= height, which is an access outside the row pointer      *)
(* array; the walk stops there.                                            *)

\* NEXT(i, j, ch, w)
NEXT(pos, w) ==
    IF pos.ch + 1 = 3
    THEN IF pos.j + 1 = w
         THEN [i |-> pos.i + 1, j |-> 0, ch |-> 0]
         ELSE [i |-> pos.i, j |-> pos.j + 1, ch |-> 0]
    ELSE [pos EXCEPT !.ch = @ + 1]

\* bit k of n: (n >> k) & 0x1, k in 0..31, n below 2^31
BitOf(n, k) == IF k > 30 THEN 0 ELSE (n \div Pow2(k)) % 2

\* w - v modulo 2^32
WSub(w, v) == WAdd(w, WAdd((0..31) \ v, {0}))

\* size_t allowed_len = (h->width * h->height * 3 - STEG_LEN) / CHAR_BIT,
\* computed in uint32_t (the products stay far below 2^32 here)
allowed_len(h) ==
    LowBits(ShiftR(WSub(Word(h.width * h.height * 3), Word(STEG_LEN)), tr_zeros(Word(CHAR_BIT))), 30)

\* faulty variant: the bit is added whatever the parity of the channel
steg_set_add(v, bit) ==
    LET v1 == IF v = 255 THEN 254 ELSE v
    IN  (v1 + bit) % 256

\* if (px[ch] == 255) --px[ch];  px[ch] += (px[ch] % 2 + bit) % 2;
steg_set(v, bit) ==
    LET v1 == IF v = 255 THEN 254 ELSE v
    IN  (v1 + (((v1 % 2) + bit) % 2)) % 256

\* faulty variant: a 255 is not lowered before the filler bit is added
steg_fill_raw(v, r) == (v + r) % 256

\* if (px[ch] == 255) --px[ch];  px[ch] += rand() % 2;
steg_fill(v, r) ==
    LET v1 == IF v = 255 THEN 254 ELSE v
    IN  (v1 + r) % 256

\* one iteration of a writing loop: the channel under pos set to nv(its
\* value), then NEXT
write_unit(ws, h, bit, filler) ==
    IF ws.oob \/ ws.pos.i >= h.height
    THEN [ws EXCEPT !.oob = TRUE]
    ELSE LET v == ws.grid[ws.pos.i][ws.pos.j][ws.pos.ch]
         IN  [ws EXCEPT !.grid[ws.pos.i][ws.pos.j][ws.pos.ch] =
                            IF filler THEN steg_fill(v, bit) ELSE steg_set(v, bit),
                        !.pos = NEXT(ws.pos, h.width)]

\* for (k = 0; k < STEG_LEN; ++k): the bits of len, least significant first
RECURSIVE write_len(_, _, _, _)
write_len(ws, h, len, k) ==
    IF k < STEG_LEN /\ ~ws.oob
    THEN LET w1 == write_unit(ws, h, BitOf(len, k), FALSE)
         IN  Step(w1, write_len(w1, h, len, k + 1))
    ELSE ws

\* for (k = 0; k < len; ++k) for (l = 0; l < CHAR_BIT; ++l); str holds the
\* bytes of the string and its terminator
RECURSIVE write_str(_, _, _, _, _)
write_str(ws, h, str, k, l) ==
    IF k < Len(str) /\ ~ws.oob
    THEN IF l < CHAR_BIT
         THEN LET w1 == write_unit(ws, h, BitOf(str[k + 1], l), FALSE)
              IN  Step(w1, write_str(w1, h, str, k, l + 1))
         ELSE write_str(ws, h, str, k + 1, 0)
    ELSE ws

\* while (i < h->height): rand is the sequence rand() % 2 yields, repeated
RECURSIVE write_fill(_, _, _, _)
write_fill(ws, h, rand, n) ==
    IF ws.pos.i < h.height /\ ~ws.oob
    THEN LET w1 == write_unit(ws, h, rand[(n % Len(rand)) + 1], TRUE)
         IN  Step(w1, write_fill(w1, h, rand, n + 1))
    ELSE ws

\* steganography_write(image, string).  Returns [heap, ret, fault, units]:
\* units is the walk's final position, ret the value returned when the
\* function runs to its end.
steganography_write(hp, im, string, rand) ==
    LET h   == im.bmp_header
        str == string \o <<0>>
        len == Len(string) + 1
        w0  == [grid |-> Grid(hp, im), pos |-> [i |-> 0, j |-> 0, ch |-> 0], oob |-> FALSE]
        w1  == write_len(w0, h, len, 0)
        w2  == write_str(w1, h, str, 0, 0)
        w3  == write_fill(w2, h, rand, 0)
    IN  IF len > allowed_len(h) THEN [heap |-> hp, ret |-> 1, fault |-> {}]
        ELSE IF h.bit_per_pixel < 16 THEN [heap |-> hp, ret |-> 1, fault |-> {}]
        ELSE [heap  |-> StoreGrid(hp, im.pixel_data, w3.grid),
              ret   |-> 0,
              fault |-> IF w3.oob THEN {"heap_overflow"} ELSE {}]

\* one iteration of a reading loop: [pos, oob, bit]
read_unit(rs, h, grid) ==
    IF rs.oob \/ rs.pos.i >= h.height
    THEN [rs EXCEPT !.oob = TRUE]
    ELSE [rs EXCEPT !.bit = grid[rs.pos.i][rs.pos.j][rs.pos.ch] % 2,
                    !.pos = NEXT(rs.pos, h.width)]

\* len += (uint32_t) (px[ch] % 2) << k, for k < STEG_LEN: len as a word
RECURSIVE read_len(_, _, _, _, _)
read_len(rs, h, grid, k, len) ==
    IF k < STEG_LEN /\ ~rs.oob
    THEN LET r1 == read_unit(rs, h, grid)
             l1 == IF ~r1.oob /\ r1.bit = 1 THEN len \cup {k} ELSE len
         IN  Step(r1, read_len(r1, h, grid, k + 1, l1))
    ELSE [rs |-> rs, len |-> len]

\* res[k] += (uint8_t) (px[ch] % 2) << l, for k < len, l < CHAR_BIT
RECURSIVE read_str(_, _, _, _, _, _, _)
read_str(rs, h, grid, len, k, l, res) ==
    IF k < len /\ ~rs.oob
    THEN IF l < CHAR_BIT
         THEN LET r1 == read_unit(rs, h, grid)
                  s1 == IF r1.oob THEN res
                        ELSE [res EXCEPT ![k + 1] = (@ + r1.bit * Pow2(l)) % 256]
              IN  Step(r1, Step(s1, read_str(r1, h, grid, len, k, l + 1, s1)))
         ELSE read_str(rs, h, grid, len, k + 1, 0, res)
    ELSE [rs |-> rs, res |-> res]

\* steganography_read(image).  fail = 1: calloc returns NULL.  Returns
\* [heap, ret, str, fault]: ret the pointer returned (0: NULL), str the
\* bytes of the block it points to.
steganography_read(hp, im, fail) ==
    LET h    == im.bmp_header
        grid == Grid(hp, im)
        r0   == [pos |-> [i |-> 0, j |-> 0, ch |-> 0], oob |-> FALSE, bit |-> 0]
        rl   == read_len(r0, h, grid, 0, {})
        len  == LowBits(rl.len, 30)
        res  == Fresh(hp)
        rd   == read_str(rl.rs, h, grid, len, 0, 0, [k \in 1..MIN(len, 3 * h.width * h.height) |-> 0])
        Out(heap_, r, str, fault_) == [heap |-> heap_, ret |-> r, str |-> str, fault |-> fault_]
    IN  IF h.bit_per_pixel < 16 THEN Out(hp, 0, << >>, {})
        ELSE IF rl.rs.oob THEN Out(hp, 0, << >>, {"heap_overflow"})
        ELSE IF rl.len \cap {30, 31} # {} \/ len > allowed_len(h) THEN Out(hp, 0, << >>, {})
        ELSE IF fail = 1
        THEN Out(hp, 0, << >>, IF len > 0 THEN {"null_deref"} ELSE {})
        ELSE Out(Alloc(hp, "string", rd.res), res, rd.res,
                 IF rd.rs.oob THEN {"heap_overflow"} ELSE {})

-----------------------------------------------------------------------------
(* The steganographic channel as a state machine (specification SpecSteg). *)
(* The caller has an image "a" made by new_image, its channels all 255,    *)
(* all 0 or mixed; it writes a string into it and reads the image, before  *)
(* or after the write.                                                     *)

StegMaxWidth == 5
StegMaxHeight == 4
MaxStrlen == 1
RandPeriod == 1

StegDepths == {8, 16, 24}
\* 'A' and 0xFF
StegChars == {65, 255}
StegStrings == UNION {[1..n -> StegChars] : n \in 0..MaxStrlen}
RandBits == [1..RandPeriod -> {0, 1}]

\* the channel values before the write
StegPaint(k, i, j) ==
    CASE k = 0 -> Pixel(255, 255, 255, 255)
      [] k = 1 -> Pixel(0, 0, 0, 0)
      [] OTHER -> Pixel(Sample(i + j), Sample(i + j + 1), Sample(i + j + 2), 7)

InitSteg ==
    /\ op = "init"
    /\ args = [none |-> TRUE]
    /\ ret = [code |-> 0]
    /\ fault = {}
    /\ steps = 0
    /\ file = NoFile
    /\ \E w \in 1..StegMaxWidth, h \in 1..StegMaxHeight, bpp \in StegDepths, k \in 0..2 :
          LET r == new_image(<< >>, w, h, bpp, 0, 0)
              px == [i \in 0..(h - 1) |-> [j \in 0..(w - 1) |-> StegPaint(k, i, j)]]
          IN  /\ img = [s \in ImageNames |-> IF s = "a" THEN r.image ELSE EmptyImage]
              /\ heap = Paint(r.heap, r.image, px)

\* steganography_write(im, string), the caller's first call
StegWrite(s) ==
    /\ Running
    /\ op = "init"
    /\ ValidGrid(heap, img[s])
    /\ \E string \in StegStrings, rand \in RandBits :
        LET r == steganography_write(heap, img[s], string, rand)
        IN  /\ op' = "steganography_write"
            /\ args' = [im |-> s, string |-> string, rand |-> rand]
            /\ ret' = [code |-> r.ret]
            /\ heap' = r.heap
            /\ fault' = r.fault
            /\ steps' = steps + 1
            /\ UNCHANGED <<img, file>>

\* steganography_read(im), once
StegRead(s) ==
    /\ Running
    /\ op \in {"init", "steganography_write"}
    /\ ValidGrid(heap, img[s])
    /\ \E fail \in 0..1 :
        LET r == steganography_read(heap, img[s], fail)
        IN  /\ op' = "steganography_read"
            /\ args' = [im |-> s, fail |-> fail, after |-> op,
                        string |-> IF op = "steganography_write" THEN args.string
                                   ELSE << >>]
            /\ ret' = [code |-> r.ret, str |-> r.str]
            /\ heap' = r.heap
            /\ fault' = r.fault
            /\ steps' = steps + 1
            /\ UNCHANGED <<img, file>>

NextSteg == StegWrite("a") \/ StegRead("a")

SpecSteg == InitSteg /\ [][NextSteg]_vars

\* the capacity in bytes, (width * height * 3 - 32) / 8, the division
\* rounding toward zero
Capacity(h) ==
    LET n == h.width * h.height * 3 - STEG_LEN
    IN  IF n >= 0 THEN n \div CHAR_BIT ELSE -((-n) \div CHAR_BIT)

\* C3: on an image of depth >= 16, after a steganography_write of a string
\* s with strlen(s) + 1 <= capacity has returned 0, steganography_read
\* returns exactly s, whatever the channels held before (255 included) and
\* whatever the filler bits were.
C3_StegRoundTrip ==
    [][(/\ op = "steganography_write"
        /\ ret.code = 0
        /\ img[args.im].bmp_header.bit_per_pixel >= 16
        /\ Len(args.string) + 1 <= Capacity(img[args.im].bmp_header)
        /\ op' = "steganography_read"
        /\ args'.fail = 0)
       => /\ fault' = {}
          /\ ret'.code # 0
          /\ ret'.str = args.string \o <<0>>]_vars

\* a string of one character was written over channels that were all 255
\* and was read back
C3_Witness ==
    /\ op = "steganography_read"
    /\ args.after = "steganography_write"
    /\ Len(args.string) = 1
    /\ ret.code # 0
    /\ ret.str = args.string \o <<0>>
    /\ \A i \in 0..(img[args.im].bmp_header.height - 1),
          j \in 0..(img[args.im].bmp_header.width - 1) :
            Grid(heap, img[args.im])[i][j][A] = 255

\* C4: on an image of depth >= 16, steganography_write returns 0 when
\* strlen + 1 equals the capacity and returns nonzero when strlen + 1 is
\* the capacity plus one.
C4_CapacityBoundary ==
    (op = "steganography_write" /\ img[args.im].bmp_header.bit_per_pixel >= 16) =>
        LET len == Len(args.string) + 1
            cap == Capacity(img[args.im].bmp_header)
        IN  /\ len = cap => (ret.code = 0 /\ fault = {})
            /\ len = cap + 1 => ret.code # 0

-----------------------------------------------------------------------------
(* Loading a file the library did not write (specification SpecLoad).  The *)
(* disk holds a bitmap of any supported depth, without palette, with the   *)
(* channel masks of MaskLayouts in its header.  The file is well formed,   *)
(* or its image_size field is 4 bytes less than the framed size of the     *)
(* pixel area, or the stream ends 2 bytes before the end of the pixel      *)
(* data.  The caller opens the file into "b" and saves "b" back.           *)

\* the bytes of a pixel row, before the padding
row_byte_length(h) == (h.width * h.bit_per_pixel + 7) \div 8

\* byte c of row i of the pixel area under header h, pattern k: padding
\* bytes are zero, and so are the bits of a row no pixel and no mask uses
AreaByte(h, i, c, k) ==
    LET rbl  == row_byte_length(h)
        v    == Sample(i * rbl + c + k)
        used == (h.width * h.bit_per_pixel) % 8
        free == Pow2(8 - used)
    IN  IF c >= rbl THEN 0
        ELSE IF h.bit_per_pixel \in {1, 4} /\ c = rbl - 1 /\ used # 0
        THEN (v \div free) * free
        ELSE IF h.bit_per_pixel = 16 /\ c % 2 = 1
                /\ 15 \notin (h.red_mask \cup h.green_mask \cup h.blue_mask)
        THEN v % 128
        ELSE v

\* the file: header h but for image_size, which is `short` bytes less; the
\* last `cut` bytes of the pixel data missing from the stream
ForeignFile(h, k, short, cut) ==
    LET framed   == row_byte_length(h) + pad_open(h)
        declared == h.image_size - short
    IN  [EmptyFile EXCEPT
            !.parts = IF cut = 0 THEN 4 ELSE 3,
            !.file_type = BM,
            !.file_size = SIZEOF_FILE_HEADER + h.header_size + declared,
            !.bmp_offset = SIZEOF_FILE_HEADER + h.header_size,
            !.header = [h EXCEPT !.image_size = declared],
            !.pixels = [n \in 0..(declared - cut - 1) |->
                           AreaByte(h, n \div framed, n % framed, k)]]

InitLoad ==
    /\ op = "init"
    /\ args = [none |-> TRUE]
    /\ ret = [code |-> 0]
    /\ fault = {}
    /\ steps = 0
    /\ img = [s \in ImageNames |-> EmptyImage]
    /\ heap = << >>
    /\ \E w \in 1..FileMaxWidth, h \in 1..FileMaxHeight, bpp \in SupportedBpp,
          k \in 0..(Patterns - 1) :
        \E m \in MaskLayouts(bpp),
           v \in IF k > 0 THEN {<<0, 0>>}
                 ELSE IF h > 1 THEN {<<0, 0>>, <<4, 0>>, <<0, 2>>}
                 ELSE {<<0, 0>>, <<0, 2>>} :
          file = ForeignFile(WithMasks(new_header(w, h, bpp, 0), m), k, v[1], v[2])

NextLoad == OpenBitmap("b") \/ SaveBitmap("b")

SpecLoad == InitLoad /\ [][NextLoad]_vars

\* height * (ceil(width * depth / 8) rounded up to a multiple of 4)
FramedSize(h) ==
    LET rbl == CeilDiv(h.width * h.bit_per_pixel, 8)
    IN  h.height * (rbl + ((4 - (rbl % 4)) % 4))

\* C11: open_bitmap checks the header's image_size against height * framed
\* row length before it decodes: a file that declares a smaller image_size
\* is not loaded, and the decode loop never reads the scratch buffer at an
\* offset >= image_size.
C11_SizeChecked ==
    (op = "open_bitmap" /\ file.exists /\ file.file_type = BM) =>
        /\ file.header.image_size < FramedSize(file.header) => ret.failed
        /\ ret.bad = {}

\* C12: a stream that ends before the declared image_size bytes of pixel
\* data is a read failure: open_bitmap returns an Image without grid and
\* never one whose pixels were not all read from the stream.
C12_ShortStreamFails ==
    (op = "open_bitmap" /\ file.exists /\ file.file_type = BM /\ file.parts < 4) =>
        /\ ret.failed
        /\ img[args.im].pixel_data = 0

\* the pixel area of file f is framed as its header says: image_size bytes,
\* height rows of row_byte_length + padding, all of them in the stream
FramedArea(f) ==
    /\ f.parts = 4
    /\ f.header.image_size = FramedSize(f.header)
    /\ DOMAIN f.pixels = 0..(f.header.image_size - 1)

\* C13: for every supported depth, a framed pixel area of the right length
\* decoded by open_bitmap and packed again by save_bitmap from the decoded
\* grid gives the same bytes (the masks of a 16 or 32 bpp header being
\* contiguous and disjoint).
C13_UnpackPack ==
    [][(/\ op = "open_bitmap"
        /\ ~ret.failed
        /\ fault = {}
        /\ FramedArea(file)
        /\ op' = "save_bitmap"
        /\ ret'.code = 0)
       => file'.pixels = file.pixels]_vars

-----------------------------------------------------------------------------
(* The pixel filters: histogram, equalize, rgb2ycbcr, ycbcr2rgb.           *)
(* A conversion of a float or double to uint8_t cuts the fraction off; for *)
(* a value outside 0..255 it is undefined: the builds either keep the low  *)
(* 8 bits of the integer (sat = FALSE) or saturate (sat = TRUE).           *)

to_u8(x, sat) ==
    IF x \in 0..255 THEN x
    ELSE IF sat THEN (IF x < 0 THEN 0 ELSE 255)
    ELSE x % 256

\* faulty variant: a level is marked as present instead of counted
hist_count_mark(hist, px, channel) == [hist EXCEPT ![px[channel]] = 1]

\* hist[((uint8_t*) &image.pixel_data[i][j])[channel]] += 1
hist_count(hist, px, channel) == [hist EXCEPT ![px[channel]] = @ + 1]

\* the two for loops of histogram, from pixel (i, j) on
RECURSIVE hist_loop(_, _, _, _, _, _)
hist_loop(h, grid, channel, i, j, hist) ==
    IF i < h.height
    THEN IF j < h.width
         THEN LET h1 == hist_count(hist, grid[i][j], channel)
              IN  Step(h1, hist_loop(h, grid, channel, i, j + 1, h1))
         ELSE hist_loop(h, grid, channel, i + 1, 0, hist)
    ELSE hist

\* histogram(image, channel).  fail = 1: calloc returns NULL.  Returns
\* [heap, ret]: ret is the pointer returned (0: NULL), to a block of 256
\* counts.
histogram(hp, im, channel, fail) ==
    IF channel < 0 \/ channel > 3 THEN [heap |-> hp, ret |-> 0]
    ELSE IF fail = 1 THEN [heap |-> hp, ret |-> 0]
    ELSE [heap |-> Alloc(hp, "hist",
                         hist_loop(im.bmp_header, Grid(hp, im), channel, 0, 0,
                                   [v \in 0..255 |-> 0])),
          ret  |-> Fresh(hp)]

\* n / d rounded to the nearest integer, a tie to the even one
RoundEven(n, d) ==
    LET q == n \div d
        r == n % d
    IN  IF 2 * r > d \/ (2 * r = d /\ q % 2 = 1) THEN q + 1 ELSE q

RECURSIVE ilog2(_)
ilog2(n) == IF n < 2 THEN 0 ELSE 1 + ilog2(n \div 2)

\* (float) p / (float) q, for 2 * q <= p < 2^8: the float m / 2^s nearest
\* to p / q, with a mantissa m of 24 bits
float_div(p, q) ==
    LET s == 23 - ilog2(p \div q)
        m == RoundEven(p * Pow2(s), q)
    IN  IF m = Pow2(24) THEN [m |-> Pow2(23), s |-> s - 1] ELSE [m |-> m, s |-> s]

\* c * n for a float c and an unsigned long n < 2^7, cut to an integer: the
\* product is rounded to a float first
float_mul_trunc(c, n) ==
    LET P  == c.m * n
        t  == IF P < Pow2(24) THEN 0 ELSE ilog2(P) - 23
        Pr == RoundEven(P, Pow2(t)) * Pow2(t)
    IN  Pr \div Pow2(c.s)

\* h[lo] + ... + h[hi], summed by halves
RECURSIVE hist_sum(_, _, _)
hist_sum(h, lo, hi) ==
    IF lo = hi THEN h[lo]
    ELSE hist_sum(h, lo, (lo + hi) \div 2) + hist_sum(h, ((lo + hi) \div 2) + 1, hi)

\* cdf[0] = h[0]; for (i = 1; i < li; ++i) cdf[i] = cdf[i - 1] + h[i];
\* which leaves h[0] + ... + h[i] in cdf[i]
cdf(h) == [i \in 0..255 |-> hist_sum(h, 0, i)]

\* the equalizing loops, from pixel (i, j) on: px[channel] = c * cdf[px[channel]]
RECURSIVE equalize_loop(_, _, _, _, _, _, _, _)
equalize_loop(h, grid, channel, c, cd, sat, i, j) ==
    IF i < h.height
    THEN IF j < h.width
         THEN LET g1 == [grid EXCEPT ![i][j][channel] =
                            to_u8(float_mul_trunc(c, cd[grid[i][j][channel]]), sat)]
              IN  Step(g1, equalize_loop(h, g1, channel, c, cd, sat, i, j + 1))
         ELSE equalize_loop(h, grid, channel, c, cd, sat, i + 1, 0)
    ELSE grid

\* equalize(image, channel).  fail = 1: the calloc of histogram returns
\* NULL.  Returns [heap, ret].
equalize(hp, im, channel, fail, sat) ==
    LET h    == im.bmp_header
        area == h.width * h.height
        c    == float_div(256, area)
        hr   == histogram(hp, im, channel, fail)
        hist == hr.heap[hr.ret].data
        grid == equalize_loop(h, Grid(hp, im), channel, c, cdf(hist), sat, 0, 0)
    IN  IF channel < 0 \/ channel > 3 THEN [heap |-> hp, ret |-> 1]
        ELSE IF hr.ret = 0 THEN [heap |-> hp, ret |-> 1]
        ELSE [heap |-> Free(StoreGrid(hr.heap, im.pixel_data, grid), hr.ret),
              ret  |-> 0]

\* a double cut to an integer.  The value is n / d; the constants of the
\* formulas (0.299, 0.587, ...) are not doubles, so where n / d is a whole
\* number reached through them (inexact) the double that was computed may
\* lie just below it in magnitude: slack = 1 is that outcome.
trunc_dec(n, d, inexact, slack) ==
    LET q == IF n >= 0 THEN n \div d ELSE -((-n) \div d)
    IN  IF inexact /\ slack = 1 /\ n % d = 0 /\ q # 0
        THEN (IF q > 0 THEN q - 1 ELSE q + 1)
        ELSE q

\* the body of the loops of rgb2ycbcr on the copy p of a pixel
rgb2ycbcr_pixel(p, sat, slack) ==
    LET y  == to_u8(trunc_dec(299 * p[R] + 587 * p[G] + 114 * p[B], 1000,
                              p[R] + p[G] + p[B] > 0, slack), sat)
        g1 == to_u8(trunc_dec(128000 + 713 * (p[B] - y), 1000, FALSE, slack), sat)
        r1 == to_u8(trunc_dec(128000 + 564 * (p[R] - y), 1000, FALSE, slack), sat)
    IN  [p EXCEPT ![B] = y, ![G] = g1, ![R] = r1]

\* the body of the loops of ycbcr2rgb on the copy p of a pixel
ycbcr2rgb_pixel(p, sat, slack) ==
    LET r1 == to_u8(trunc_dec(1000 * p[B] + 1402 * (p[R] - 128), 1000, FALSE, slack), sat)
        g1 == to_u8(trunc_dec(100000 * p[B] - 34414 * (p[G] - 128) - 71414 * (p[R] - 128),
                              100000, p[G] # 128 \/ p[R] # 128, slack), sat)
        b1 == to_u8(trunc_dec(1000 * p[B] + 1772 * (p[G] - 128), 1000, FALSE, slack), sat)
    IN  [p EXCEPT ![R] = r1, ![G] = g1, ![B] = b1]

\* rgb2ycbcr(image): each iteration reads and writes its own pixel only
rgb2ycbcr(hp, im, sat, slack) ==
    [heap |-> StoreGrid(hp, im.pixel_data,
                        [i \in 0..(im.bmp_header.height - 1) |->
                            [j \in 0..(im.bmp_header.width - 1) |->
                                rgb2ycbcr_pixel(Grid(hp, im)[i][j], sat, slack)]]),
     ret  |-> 0]

\* ycbcr2rgb(image)
ycbcr2rgb(hp, im, sat, slack) ==
    [heap |-> StoreGrid(hp, im.pixel_data,
                        [i \in 0..(im.bmp_header.height - 1) |->
                            [j \in 0..(im.bmp_header.width - 1) |->
                                ycbcr2rgb_pixel(Grid(hp, im)[i][j], sat, slack)]]),
     ret  |-> 0]

-----------------------------------------------------------------------------
(* The filters as a state machine (specification SpecFilter).  The caller  *)
(* has a 24 bpp image "a" made by new_image and painted with one, two or   *)
(* more colours in turn; it takes a histogram or equalizes a channel, or   *)
(* converts the image to Y'CbCr, and then takes a histogram of the         *)
(* equalized image or converts it back.                                    *)

\* the colours painted: (R, G, B) = (100, 150, 200), black, blue, white
FilterColors ==
    <<Pixel(200, 150, 100, 7), Pixel(0, 0, 0, 0), Pixel(255, 0, 0, 255),
      Pixel(255, 255, 255, 128)>>

\* pixel n of pattern k: the first k + 1 colours in turn
FilterPaint(k, n) == FilterColors[((n % (k + 1)) % 4) + 1]

ChannelArgs == -1..4

InitFilter ==
    /\ op = "init"
    /\ args = [none |-> TRUE]
    /\ ret = [code |-> 0]
    /\ fault = {}
    /\ steps = 0
    /\ file = NoFile
    /\ \E w \in 1..FileMaxWidth, h \in 1..FileMaxHeight, k \in 0..(Patterns - 1) :
          LET r == new_image(<< >>, w, h, 24, 0, 0)
              px == [i \in 0..(h - 1) |-> [j \in 0..(w - 1) |-> FilterPaint(k, i * w + j)]]
          IN  /\ img = [s \in ImageNames |-> IF s = "a" THEN r.image ELSE EmptyImage]
              /\ heap = Paint(r.heap, r.image, px)

\* hist = histogram(im, channel), on the image as painted or as equalized
Histogram(s) ==
    /\ Running
    /\ op \in {"init", "equalize"}
    /\ ValidGrid(heap, img[s])
    /\ \E channel \in ChannelArgs, fail \in 0..1 :
        LET r == histogram(heap, img[s], channel, fail)
        IN  /\ op' = "histogram"
            /\ args' = [im |-> s, channel |-> channel, fail |-> fail]
            /\ ret' = [code |-> r.ret]
            /\ heap' = r.heap
            /\ steps' = steps + 1
            /\ UNCHANGED <<img, file, fault>>

\* equalize(im, channel), the caller's first call
Equalize(s) ==
    /\ Running
    /\ op = "init"
    /\ ValidGrid(heap, img[s])
    /\ \E channel \in ChannelArgs, fail \in 0..1, sat \in BOOLEAN :
        LET r == equalize(heap, img[s], channel, fail, sat)
        IN  /\ op' = "equalize"
            /\ args' = [im |-> s, channel |-> channel, fail |-> fail]
            /\ ret' = [code |-> r.ret]
            /\ heap' = r.heap
            /\ steps' = steps + 1
            /\ UNCHANGED <<img, file, fault>>

\* rgb2ycbcr(im), the caller's first call; orig keeps the pixels it found
Rgb2YCbCr(s) ==
    /\ Running
    /\ op = "init"
    /\ ValidGrid(heap, img[s])
    /\ \E sat \in BOOLEAN, slack \in 0..1 :
        LET r == rgb2ycbcr(heap, img[s], sat, slack)
        IN  /\ op' = "rgb2ycbcr"
            /\ args' = [im |-> s, orig |-> Grid(heap, img[s])]
            /\ ret' = [code |-> r.ret]
            /\ heap' = r.heap
            /\ steps' = steps + 1
            /\ UNCHANGED <<img, file, fault>>

\* ycbcr2rgb(im), on the image as painted or as converted; orig keeps the
\* pixels the image had before either call
YCbCr2Rgb(s) ==
    /\ Running
    /\ op \in {"init", "rgb2ycbcr"}
    /\ ValidGrid(heap, img[s])
    /\ \E sat \in BOOLEAN, slack \in 0..1 :
        LET r == ycbcr2rgb(heap, img[s], sat, slack)
        IN  /\ op' = "ycbcr2rgb"
            /\ args' = [im |-> s, after |-> op,
                        orig |-> IF op = "rgb2ycbcr" THEN args.orig
                                 ELSE Grid(heap, img[s])]
            /\ ret' = [code |-> r.ret]
            /\ heap' = r.heap
            /\ steps' = steps + 1
            /\ UNCHANGED <<img, file, fault>>

NextFilter == Histogram("a") \/ Equalize("a") \/ Rgb2YCbCr("a") \/ YCbCr2Rgb("a")

SpecFilter == InitFilter /\ [][NextFilter]_vars

\* the positions of the pixels of image im
Positions(im) == (0..(im.bmp_header.height - 1)) \X (0..(im.bmp_header.width - 1))

\* f[lo] + ... + f[hi]
RECURSIVE Total(_, _, _)
Total(f, lo, hi) ==
    IF lo > hi THEN 0
    ELSE IF lo = hi THEN f[lo]
    ELSE Total(f, lo, (lo + hi) \div 2) + Total(f, ((lo + hi) \div 2) + 1, hi)

\* n / d rounded to the nearest integer, halves upwards (n >= 0)
RoundDiv(n, d) == (2 * n + d) \div (2 * d)

\* n / d cut toward zero, then to its low 8 bits
Trunc8(n, d) == (IF n >= 0 THEN n \div d ELSE -((-n) \div d)) % 256

\* C14: equalize(image, channel) with channel in 0..3 replaces the selected
\* channel value v of every pixel by round(255 / area * CDF[v]), CDF[v]
\* being the number of pixels whose value was <= v before the call (so the
\* largest value present becomes 255 and every result fits 0..255) and
\* leaves the other channels alone; with another channel it returns nonzero
\* and changes nothing.
C14_Equalize ==
    [][op' = "equalize" =>
        LET im   == img[args'.im]
            ch   == args'.channel
            old  == Grid(heap, im)
            new  == Grid(heap', im)
            area == im.bmp_header.width * im.bmp_header.height
            CDF(v) == Cardinality({q \in Positions(im) : old[q[1]][q[2]][ch] <= v})
        IN  /\ (ch \in 0..3 /\ args'.fail = 0) =>
                   /\ ret'.code = 0
                   /\ \A q \in Positions(im) :
                          /\ new[q[1]][q[2]][ch]
                                 = RoundDiv(255 * CDF(old[q[1]][q[2]][ch]), area)
                          /\ new[q[1]][q[2]][ch] \in 0..255
                          /\ \A c \in (0..3) \ {ch} :
                                 new[q[1]][q[2]][c] = old[q[1]][q[2]][c]
            /\ ch \notin 0..3 => (ret'.code # 0 /\ heap' = heap /\ img' = img)]_vars

\* C15: rgb2ycbcr puts Y = 0.299 R + 0.587 G + 0.114 B into the blue slot,
\* Cb = 128 + 0.564 (B - Y) into the green slot and Cr = 128 + 0.713 (R - Y)
\* into the red slot, each cut to 8 bits and computed from the pixel's
\* original values, and leaves the index/alpha slot alone.  Stated for the
\* pixels whose Y is not a whole number and whose Cb and Cr lie in 0..255,
\* where cutting a double to 8 bits has one outcome.
C15_Rgb2YCbCr ==
    [][op' = "rgb2ycbcr" =>
        \A q \in Positions(img[args'.im]) :
            LET p  == Grid(heap, img[args'.im])[q[1]][q[2]]
                n  == Grid(heap', img[args'.im])[q[1]][q[2]]
                Y  == 299 * p[R] + 587 * p[G] + 114 * p[B]
                y  == Y \div 1000
                Cb == 128000 + 564 * (p[B] - y)
                Cr == 128000 + 713 * (p[R] - y)
            IN  (Y % 1000 # 0 /\ Cb \in 0..255999 /\ Cr \in 0..255999) =>
                    /\ n[B] = y
                    /\ n[G] = Trunc8(Cb, 1000)
                    /\ n[R] = Trunc8(Cr, 1000)
                    /\ n[A] = p[A]]_vars

\* C16: a pixel with R = 100, G = 150, B = 200 taken through rgb2ycbcr and
\* then ycbcr2rgb comes back with R, G and B each within 2 of the original.
C16_NearInverse ==
    (op = "ycbcr2rgb" /\ args.after = "rgb2ycbcr") =>
        \A q \in Positions(img[args.im]) :
            LET p == args.orig[q[1]][q[2]]
                n == Grid(heap, img[args.im])[q[1]][q[2]]
            IN  (p[R] = 100 /\ p[G] = 150 /\ p[B] = 200) =>
                    \A c \in {B, G, R} : n[c] - p[c] \in -2..2

\* C17: histogram(image, channel) with channel in 0..3 returns 256 counts,
\* count[v] being the number of pixels whose selected channel equals v, so
\* that the counts sum to width * height, and leaves the image as it was;
\* with a channel outside 0..3 it returns no histogram.
C17_Histogram ==
    [][op' = "histogram" =>
        LET im   == img[args'.im]
            ch   == args'.channel
            grid == Grid(heap, im)
        IN  /\ img' = img
            /\ \A p \in 1..Len(heap) : heap'[p] = heap[p]
            /\ (ch \in 0..3 /\ args'.fail = 0) =>
                   /\ ret'.code # 0
                   /\ DOMAIN heap'[ret'.code].data = 0..255
                   /\ \A v \in 0..255 :
                          heap'[ret'.code].data[v]
                              = Cardinality({q \in Positions(im) : grid[q[1]][q[2]][ch] = v})
                   /\ Total(heap'[ret'.code].data, 0, 255)
                          = im.bmp_header.width * im.bmp_header.height
            /\ ch \notin 0..3 => (ret'.code = 0 /\ heap' = heap)]_vars

\* a histogram of the red channel was taken of an image with several
\* pixels of red 100 and some of red 0
C17_Witness ==
    /\ op = "histogram"
    /\ args.channel = R
    /\ ret.code # 0
    /\ heap[ret.code].data[100] >= 2
    /\ heap[ret.code].data[0] >= 1
    /\ Total(heap[ret.code].data, 0, 255) >= 3

\* C18: when image_size = height * (row_byte_length + padding), the pack
\* step of save_bitmap emits `height` rows of row_byte_length + padding
\* bytes: the cursor ends at offset image_size and nothing is written at or
\* past it, every padding byte is zero and so is every bit of a 1 bpp or
\* 4 bpp row after its last pixel, at every supported depth.
C18_PackFraming ==
    (/\ op = "save_bitmap"
     /\ ret.code = 0
     /\ img[args.im].bmp_header.image_size = FramedSize(img[args.im].bmp_header)) =>
        LET h      == img[args.im].bmp_header
            rbl    == CeilDiv(h.width * h.bit_per_pixel, 8)
            framed == rbl + ((4 - (rbl % 4)) % 4)
            used   == (h.width * h.bit_per_pixel) % 8
        IN  /\ ret.pack.cur = h.height * framed
            /\ ret.pack.cur = h.image_size
            /\ ret.pack.bad = {}
            /\ DOMAIN ret.pack.mem = 0..(h.image_size - 1)
            /\ \A n \in DOMAIN ret.pack.mem : n % framed >= rbl => ret.pack.mem[n] = 0
            /\ (h.bit_per_pixel \in {1, 4} /\ used # 0) =>
                   \A i \in 0..(h.height - 1) :
                       ret.pack.mem[i * framed + rbl - 1] % Pow2(8 - used) = 0

C20_StaysInGrid ==
    (/\ op \in {"steganography_write", "steganography_read"}
     /\ img[args.im].bmp_header.bit_per_pixel >= 16)
        => "heap_overflow" \notin fault

-----------------------------------------------------------------------------
(* Files with headers of other sizes (specification SpecHeader).  The file *)
(* on disk was written by another program with a BITMAPINFOHEADER (40      *)
(* bytes), a V3, V4 or V5 header (56, 108, 124), or a header that declares *)
(* more bytes than Bmp_header has.  The caller opens it into "b" and then  *)
(* destroys "b".                                                           *)

HeaderSizes == {40, 56, 108, 124, 128, 132, 136, 148}

InitHeader ==
    /\ op = "init"
    /\ args = [none |-> TRUE]
    /\ ret = [code |-> 0]
    /\ fault = {}
    /\ steps = 0
    /\ img = [s \in ImageNames |-> EmptyImage]
    /\ heap = << >>
    /\ \E w \in 1..FileMaxWidth, h \in 1..FileMaxHeight, bpp \in BppArgs,
          n \in HeaderSizes :
        file = ForeignFile([new_header(w, h, bpp, 0) EXCEPT !.header_size = n], 0, 0, 0)

NextHeader == OpenBitmap("b") \/ DestroyImage("b")

SpecHeader == InitHeader /\ [][NextHeader]_vars

\* C21: whatever header_size the first 4 bytes of the header declare,
\* open_bitmap stores at most sizeof (Bmp_header) = 124 bytes of the stream
\* into the Image's header: a declared size above 124 writes nothing into
\* the grid and palette pointers or past the Image.
C21_HeaderBounded ==
    op = "open_bitmap" =>
        /\ ret.copied <= SIZEOF_BMP_HEADER
        /\ ret.over = {}
        /\ "header_overflow" \notin fault
=============================================================================
